---- MODULE Spec2Model ----
(***************************************************************************)
(* Model of the icon-set loading, caching and alias-resolution pipeline of *)
(* src/src/utils/svgs.ts: UniqPromise / LoadIconSet / migrateCache /       *)
(* clearCache / writeCache / loadCache, resolveIconData, getIconInfo and   *)
(* getDataURL.  JavaScript is single-threaded: every action below is one   *)
(* synchronous run of code between two suspension points (await).          *)
(***************************************************************************)
EXTENDS Integers, Sequences, FiniteSets, Bags, TLC

\* ------------------------------------------------------------- bounds
MaxExec == 2      \* executions of the function wrapped by UniqPromise
MaxCalls == 2     \* callers waiting for an execution at one time
MaxClears == 1    \* completed clearCache() calls counted

\* ------------------------------------------------------------- universe
Ids == {"a", "b"}                 \* collection ids
LegacyIds == {"a"}                \* ids that may have an 'icons-' entry
CustomIds == {"b"}                \* prefixes of the custom collections
Colors == {"red", "blue"}         \* values of the configured display color
FontSizes == {32}                 \* pixel sizes requested

\* an IconifyJSON object: where it was created, by which execution, for
\* which collection.  Two objects are the same object iff the records agree.
Undefined == [src |-> "undefined", exec |-> 0, id |-> ""]
FetchedObj(e, id) == [src |-> "fetch", exec |-> e, id |-> id]
ParsedObj(e, id) == [src |-> "disk", exec |-> e, id |-> id]
LegacyObj(id) == [src |-> "legacy", exec |-> 0, id |-> id]
CustomObj(id) == [src |-> "custom", exec |-> 0, id |-> id]

VARIABLES
    loadedIconSets,     \* [Ids -> object]       let loadedIconSets (line 43)
    dataURLCache,       \* set of [ck, url]      let dataURLCache (line 44)
    _tasks,             \* [Ids -> 0..MaxExec]   let _tasks (line 46), 0: no entry
    execs,              \* the promises made by fn(id): sequence of records
    calls,              \* bag of callers waiting at await _tasks[id] (line 51)
    called,             \* the call of the UniqPromise wrapper made in the
                        \* last step, if any, and what it found
    ret,                \* the call that returned in the last step, if any
    outcomes,           \* absent results getIconInfo returned, with their cause
    writes,             \* executions whose unawaited writeCache is in flight
    legacy,             \* ids with an 'icons-<id>' key in ctx.globalState
    files,              \* ids with a file <id>.json in the cache directory
    dirExists,          \* the cache directory exists
    config,             \* color, customCollections, customAliasesOnly
    clear,              \* the clearCache() call: pc, snapshot, outcome
    rs                  \* the alias resolver's input and output

vars == <<loadedIconSets, dataURLCache, _tasks, execs, calls, called, ret, outcomes,
          writes, legacy, files, dirExists, config, clear, rs>>

\* ------------------------------------------------------------- icon data
\* An optional field is <<>> when absent and <<v>> when present.
Absent == <<>>
Some(v) == <<v>>
Val(o) == o[1]
\* a ?? b, taking the right operand whatever the left one is
NullishRight(a, b) == b

\* a ?? b
Nullish(a, b) == IF a = Absent THEN b ELSE a

DefaultSize == 16
MaxDepth == 6     \* call-stack depth at which the recursion overflows

Names == {"A", "B", "C"}          \* local icon / alias names

\* the value null returned by resolveIconData
Null == [body |-> "null"]

PlainIcon == [body |-> "p", left |-> Absent, top |-> Absent, width |-> Absent,
              height |-> Absent, rotate |-> Absent, hFlip |-> Absent,
              vFlip |-> Absent]

\* function normalizeIcon(icon, data)
normalizeIcon(icon, data) ==
    LET n1 == [icon EXCEPT
                 !.left = Nullish(icon.left, Nullish(data.left, Some(0))),
                 !.top = Nullish(icon.top, Nullish(data.top, Some(0))),
                 !.width = Nullish(icon.width, Nullish(data.width, Some(DefaultSize))),
                 !.height = Nullish(icon.height, Nullish(data.height, Some(DefaultSize)))]
    IN  IF n1.rotate # Absent /\ Val(n1.rotate) # 0
        THEN [n1 EXCEPT !.rotate = Some(Val(n1.rotate) % 4)]
        ELSE n1

\* the rotation of mergeAlias, leaving out the parent's
rotateSumAliasOnly(parentRotate, aliasRotate) == aliasRotate % 4

\* const rotate = (parentRotate + aliasRotate) % 4
rotateSum(parentRotate, aliasRotate) == (parentRotate + aliasRotate) % 4

\* function mergeAlias(parent, alias)
mergeAlias(parent, alias) ==
    LET m1 == [parent EXCEPT
                 !.left = IF alias.left # Absent THEN alias.left ELSE @,
                 !.top = IF alias.top # Absent THEN alias.top ELSE @,
                 !.width = IF alias.width # Absent THEN alias.width ELSE @,
                 !.height = IF alias.height # Absent THEN alias.height ELSE @]
        parentRotate == Val(Nullish(parent.rotate, Some(0)))
        aliasRotate == Val(Nullish(alias.rotate, Some(0)))
        rotate == rotateSum(parentRotate, aliasRotate)
        hFlip == parent.hFlip # alias.hFlip
        vFlip == parent.vFlip # alias.vFlip
    IN  [m1 EXCEPT
           !.rotate = IF rotate # 0 THEN Some(rotate) ELSE Absent,
           !.hFlip = IF hFlip THEN Some(TRUE) ELSE Absent,
           !.vFlip = IF vFlip THEN Some(TRUE) ELSE Absent]

\* the cycle guard of resolve, never taken
CycleGuardOff(key, visited) == FALSE

\* if (visited.has(key)) return null
CycleGuard(key, visited) == key \in visited

\* const resolve = (key) => ...  with the closure's visited set threaded
\* through; trace lists the keys added to visited, in order; overflow is the
\* call stack running out (RangeError) at depth MaxDepth.
RECURSIVE resolve(_, _, _, _)
resolve(data, key, visited, depth) ==
    IF depth > MaxDepth
    THEN [icon |-> Null, visited |-> visited, trace |-> <<>>, overflow |-> TRUE]
    ELSE IF CycleGuard(key, visited)
    THEN [icon |-> Null, visited |-> visited, trace |-> <<>>, overflow |-> FALSE]
    ELSE LET v1 == visited \cup {key} IN
         IF key \in DOMAIN data.icons
         THEN [icon |-> normalizeIcon(data.icons[key], data), visited |-> v1,
               trace |-> <<key>>, overflow |-> FALSE]
         ELSE IF key \notin DOMAIN data.aliases
         THEN [icon |-> Null, visited |-> v1, trace |-> <<key>>, overflow |-> FALSE]
         ELSE LET alias == data.aliases[key]
                  parent == resolve(data, alias.parent, v1, depth + 1)
              IN  IF parent.icon = Null
                  THEN [parent EXCEPT !.trace = <<key>> \o @]
                  ELSE [parent EXCEPT
                          !.icon = normalizeIcon(mergeAlias(parent.icon, alias), data),
                          !.trace = <<key>> \o @]

\* function resolveIconData(data, name): the whole run, with its trace
resolveRun(data, name) == resolve(data, name, {}, 1)

resolveIconData(data, name) == resolveRun(data, name).icon

\* ------------------------------------------------------------- collections
\* Alias fields default to absent.
PlainAlias(parent) == [parent |-> parent, left |-> Absent, top |-> Absent,
                       width |-> Absent, height |-> Absent, rotate |-> Absent,
                       hFlip |-> Absent, vFlip |-> Absent]

\* What the CDN, the persisted file, the legacy entry and the custom
\* collection hold for collection id: icon A, alias B of A turned once,
\* alias C of itself.
IconSetOf(id) ==
    [prefix |-> id,
     icons |-> [n \in {"A"} |-> [PlainIcon EXCEPT !.width = Some(20),
                                                  !.height = Some(10)]],
     aliases |-> [n \in {"B", "C"} |->
                    IF n = "B" THEN [PlainAlias("A") EXCEPT !.rotate = Some(1)]
                               ELSE PlainAlias("C")],
     left |-> Absent, top |-> Absent, width |-> Absent, height |-> Absent]

\* qualified keys: "<collection>:<icon>", or a bare word
Key(c, n) == [collection |-> c, icon |-> n]
BadKey == Key("", "bad")
AliasName == Key("", "h")
InfoKeys == {Key("a", "A"), Key("a", "C"), Key("b", "C"), BadKey, AliasName}
UrlKeys == {Key("a", "A"), BadKey}

\* enabledAliases.value
enabledAliases == [k \in {AliasName} |-> Key("a", "A")]

\* parseIcon(actualKey): { collection, icon } or nothing
parseIcon(k) == IF k.collection = "" THEN Undefined ELSE k

\* customCollections.value.find(c => c.prefix === id)
customFind(id) == IF id \in config.custom THEN CustomObj(id) ELSE Undefined

\* ------------------------------------------------------------- data URLs
DigitChar(d) == CASE d = 0 -> "0" [] d = 1 -> "1" [] d = 2 -> "2" [] d = 3 -> "3"
                  [] d = 4 -> "4" [] d = 5 -> "5" [] d = 6 -> "6" [] d = 7 -> "7"
                  [] d = 8 -> "8" [] OTHER -> "9"

\* String(n) for a non-negative integer, as a sequence of characters
RECURSIVE NumStr(_)
NumStr(n) == IF n < 10 THEN <<DigitChar(n)>>
             ELSE NumStr(n \div 10) \o <<DigitChar(n % 10)>>

\* a string as its sequence of characters
Chars(s) == CASE s = "red" -> <<"r", "e", "d">>
              [] s = "blue" -> <<"b", "l", "u", "e">>
              [] s = "bad" -> <<"b", "a", "d">>
              [] s = "2a" -> <<"2", "a">>
              [] OTHER -> <<s>>

ColorStr(c) == Chars(c)
KeyStr(k) == IF k.collection = "" THEN Chars(k.icon)
             ELSE Chars(k.collection) \o <<":">> \o Chars(k.icon)

\* const cacheKey = color.value + fontSize + key
cacheKeyOf(c, fontSize, k) == ColorStr(c) \o NumStr(fontSize) \o KeyStr(k)

\* dataURLCache[cacheKey], Undefined-like <<>> when there is none
cacheGet(ck) == IF \E p \in dataURLCache : p.ck = ck
                THEN (CHOOSE p \in dataURLCache : p.ck = ck).url
                ELSE [kind |-> "none"]

\* toDataUrl(pathToSvg(info, fontSize).replace(/currentColor/g, color.value)):
\* the data URL of this icon at this size painted in this color
render(info, fontSize, c) ==
    [kind |-> "url", key |-> info.key, size |-> fontSize, color |-> c,
     rotate |-> info.rotate, hFlip |-> info.hFlip, vFlip |-> info.vFlip]

\* dataURLCache[cacheKey] = url; by: the color, size and key of the request
\* that computed cacheKey
cachePut(ck, url, by) ==
    {p \in dataURLCache : p.ck # ck} \cup {[ck |-> ck, url |-> url, by |-> by]}

\* the request of a data URL: display color, pixel size, icon key
Request(c, fontSize, k) == [color |-> c, size |-> fontSize, key |-> k]

\* ------------------------------------------------------------- getIconInfo
\* ratio: (width / height) || 1, as a fraction; x/0 is Infinity for x # 0,
\* and 0/0 (NaN) and 0/h (0) are falsy
ratioOf(w, h) == IF w = 0 THEN [num |-> 1, den |-> 1]
                 ELSE [num |-> w, den |-> h]

\* lines 246-263 of getIconInfo: the IconInfo built from the loaded icon set,
\* or null when the name does not resolve
iconInfoOf(iconSet, parsed, actualKey) ==
    LET iconData == resolveIconData(iconSet, parsed.icon)
    IN  IF iconData = Null THEN [kind |-> "null"]
        ELSE LET width == Val(Nullish(iconData.width,
                                      Nullish(iconSet.width, Some(DefaultSize))))
                 height == Val(Nullish(iconData.height,
                                       Nullish(iconSet.height, Some(DefaultSize))))
             IN [kind |-> "info", body |-> iconData.body,
                 left |-> iconData.left, top |-> iconData.top,
                 rotate |-> iconData.rotate, hFlip |-> iconData.hFlip,
                 vFlip |-> iconData.vFlip, width |-> width, height |-> height,
                 collection |-> parsed.collection, id |-> parsed.icon,
                 key |-> actualKey, ratio |-> ratioOf(width, height)]

\* lines 242-263 of getIconInfo: what it returns once LoadIconSet resolved
\* with data
infoResult(data, parsed, actualKey) ==
    IF data = Undefined THEN [kind |-> "null"]
    ELSE iconInfoOf(IconSetOf(data.id), parsed, actualKey)

\* lines 232-236: the key getIconInfo goes on with, or nothing
actualKeyOf(key, allowAliases) ==
    LET alias == IF allowAliases /\ key \in DOMAIN enabledAliases
                 THEN enabledAliases[key] ELSE Undefined
    IN  IF allowAliases /\ config.customAliasesOnly /\ alias = Undefined
        THEN Undefined
        ELSE IF alias # Undefined THEN alias ELSE key

\* ------------------------------------------------------------- executions
\* One execution of the function wrapped by UniqPromise (lines 117-145).
\*   pc:    "mwrite"  awaiting writeCache inside migrateCache (line 110)
\*          "check"   awaiting migrateCache() (line 118)
\*          "read"    awaiting loadCache(id) (line 123)
\*          "fetch"   awaiting $fetch(url) (line 133)
\*          "done"    resolved with data;  "rejected"  rejected
\*   mkeys: the keys of ctx.globalState.keys() still to migrate
\*   mval:  the value being written by migrateCache
\*   sawMem, sawCustom, sawDisk: what the execution found when it looked
\*   reads, fetches: disk reads and network fetches it started
\*   failed: its network fetch failed
NewExec(id) == [id |-> id, pc |-> "check", mkeys |-> <<>>, mval |-> Undefined,
                data |-> Undefined, sawMem |-> FALSE, sawCustom |-> FALSE,
                sawDisk |-> FALSE, reads |-> 0, fetches |-> 0, failed |-> FALSE]

\* ctx.globalState.keys() filtered by the prefix 'icons-', in the store's order
RECURSIVE KeySeq(_)
KeySeq(S) == IF S = {} THEN <<>>
             ELSE LET k == CHOOSE x \in S : TRUE IN <<k>> \o KeySeq(S \ {k})

\* migrateCache, from the top of a loop iteration to its await (lines
\* 105-110), or to its return: the execution and the memory cache after it
migrateIter(ex, ks, mem, leg) ==
    IF ks = <<>>
    THEN [ex |-> [ex EXCEPT !.pc = "check", !.mkeys = <<>>, !.mval = Undefined],
          mem |-> mem]
    ELSE LET key == Head(ks)
             cached == IF key \in leg THEN LegacyObj(key) ELSE Undefined
         IN  [ex |-> [ex EXCEPT !.pc = "mwrite", !.mkeys = ks, !.mval = cached],
              mem |-> [mem EXCEPT ![key] = cached]]

\* the deduplication test of UniqPromise, always failing
HasTaskNever(id) == FALSE

\* the deduplication test of UniqPromise, passing only while the tracked
\* execution is pending
HasTaskPending(id) ==
    /\ _tasks[id] # 0
    /\ execs[_tasks[id]].pc \notin {"done", "rejected"}

\* if (!_tasks[id]) ... (line 49), negated
HasTask(id) == _tasks[id] # 0

\* if (!data) (line 122), negated: the first two sources gave the icon set
HasData(data) == data # Undefined

\* if (cached) (line 124), never taken
DiskHitNever(cached) == FALSE

DiskHit(cached) == cached # Undefined

\* catch (e) { Log.error(e, true) } (lines 138-140), rethrowing
FetchFailureRethrow(ex) == [ex EXCEPT !.pc = "rejected", !.failed = TRUE]

\* catch (e) { Log.error(e, true) }: the execution goes on to return data
FetchFailure(ex) == [ex EXCEPT !.pc = "done", !.failed = TRUE]

\* no call returned, no call made
NoRet == [op |-> "none"]
NoCall == [op |-> "none"]

\* a caller of LoadIconSet(id), directly or from getIconInfo or getDataURL,
\* waiting for execution exec; ck is the cache key getDataURL computed, from
\* the display color of that moment
NewCall(op, key, actualKey, id, size, exec) ==
    [op |-> op, key |-> key, actualKey |-> actualKey, id |-> id, size |-> size,
     ck |-> cacheKeyOf(config.color, size, key), color |-> config.color,
     exec |-> exec]

\* what a call of the wrapper found and did:
\*   prev:    the entry _tasks[id] held, 0 for none
\*   found:   "none", or whether the tracked execution was "pending" or "settled"
\*   started: the call ran fn(id)
\*   exec:    the execution the caller awaits
\*   after:   clearCache() calls completed before the call
CallEvent(op, id, exec, started) ==
    [op |-> op, id |-> id, exec |-> exec, started |-> started,
     prev |-> _tasks[id],
     found |-> IF _tasks[id] = 0 THEN "none"
               ELSE IF execs[_tasks[id]].pc \in {"done", "rejected"} THEN "settled"
               ELSE "pending",
     after |-> clear.completed]

\* the wrapper returned by UniqPromise (lines 48-52), up to its await; fn(id)
\* runs synchronously up to its first await, inside migrateCache or on it
LoadIconSetCall(op, key, actualKey, id, size) ==
    /\ BagCardinality(calls) < MaxCalls
    /\ IF HasTask(id)
       THEN /\ calls' = calls (+) SetToBag({NewCall(op, key, actualKey, id, size,
                                                    _tasks[id])})
            /\ called' = CallEvent(op, id, _tasks[id], FALSE)
            /\ UNCHANGED <<_tasks, execs, loadedIconSets>>
       ELSE /\ Len(execs) < MaxExec
            /\ LET e == Len(execs) + 1
                   m == migrateIter(NewExec(id), KeySeq(legacy), loadedIconSets,
                                    legacy)
               IN  /\ execs' = Append(execs, m.ex)
                   /\ loadedIconSets' = m.mem
                   /\ _tasks' = [_tasks EXCEPT ![id] = e]
                   /\ calls' = calls (+) SetToBag({NewCall(op, key, actualKey, id,
                                                           size, e)})
                   /\ called' = CallEvent(op, id, e, TRUE)
    /\ ret' = NoRet
    /\ UNCHANGED <<dataURLCache, outcomes, writes, legacy, files, dirExists,
                   config, clear, rs>>

\* a caller invokes LoadIconSet(id)
LoadIconSet(id) == LoadIconSetCall("load", Key(id, ""), Key(id, ""), id, 0)

\* deleteTask(id)
deleteTask(id) ==
    /\ _tasks[id] # 0
    /\ _tasks' = [_tasks EXCEPT ![id] = 0]
    /\ UNCHANGED <<loadedIconSets, dataURLCache, execs, calls, writes, legacy,
                   files, dirExists, config, clear, rs>>

\* catch (e) { Log.error(e) } of writeCache (lines 89-91), rethrowing: the
\* execution awaiting the write rejects
WriteFailureRethrow(ex) == [ex EXCEPT !.pc = "rejected"]

\* catch (e) { Log.error(e) } of writeCache: the execution awaiting the write
\* goes on
WriteFailure(ex) == ex

\* migrateCache resumes after await writeCache(iconSetId, cached) (lines
\* 110-113) and runs to its next await or returns.  writeCache wrote the file,
\* or failed and logged; a cached value of undefined cannot be serialised, so
\* nothing is written.
MigrateStep(e) ==
    /\ execs[e].pc = "mwrite"
    /\ \E ok \in BOOLEAN :
         LET key == Head(execs[e].mkeys)
             wrote == ok /\ execs[e].mval # Undefined
             leg == legacy \ {key}
             m == migrateIter(execs[e], Tail(execs[e].mkeys), loadedIconSets, leg)
         IN  /\ files' = IF wrote THEN files \cup {key} ELSE files
             /\ dirExists' = (dirExists \/ wrote)
             /\ legacy' = leg
             /\ execs' = [execs EXCEPT ![e] = IF wrote THEN m.ex
                                               ELSE WriteFailure(m.ex)]
             /\ loadedIconSets' = m.mem
    /\ UNCHANGED <<dataURLCache, _tasks, calls, writes, config, clear, rs>>

\* lines 120-123: after await migrateCache(), look in memory and among the
\* custom collections, then start the disk read
CheckMemory(e) ==
    /\ execs[e].pc = "check"
    /\ LET id == execs[e].id
           mem == loadedIconSets[id]
           cus == customFind(id)
           data == IF mem # Undefined THEN mem ELSE cus
           seen == [execs[e] EXCEPT !.sawMem = (mem # Undefined),
                                    !.sawCustom = (cus # Undefined)]
       IN  execs' = [execs EXCEPT ![e] =
                       IF HasData(data)
                       THEN [seen EXCEPT !.pc = "done", !.data = data]
                       ELSE [seen EXCEPT !.pc = "read", !.reads = @ + 1]]
    /\ UNCHANGED <<loadedIconSets, dataURLCache, _tasks, calls, writes, legacy,
                   files, dirExists, config, clear, rs>>

\* lines 123-133: loadCache(id) resolved, with the parsed file or, when the
\* file is missing or unreadable, with undefined; on a miss start the fetch
ReadDone(e) ==
    /\ execs[e].pc = "read"
    /\ \E readable \in BOOLEAN :
         LET id == execs[e].id
             cached == IF id \in files /\ readable THEN ParsedObj(e, id)
                       ELSE Undefined
             seen == [execs[e] EXCEPT !.sawDisk = (cached # Undefined)]
         IN  IF DiskHit(cached)
             THEN /\ loadedIconSets' = [loadedIconSets EXCEPT ![id] = cached]
                  /\ execs' = [execs EXCEPT ![e] =
                                 [seen EXCEPT !.pc = "done", !.data = cached]]
             ELSE /\ execs' = [execs EXCEPT ![e] =
                                 [seen EXCEPT !.pc = "fetch", !.fetches = @ + 1]]
                  /\ UNCHANGED loadedIconSets
    /\ UNCHANGED <<dataURLCache, _tasks, calls, writes, legacy, files,
                   dirExists, config, clear, rs>>

\* lines 133-137: $fetch resolved; cache the icon set and start writeCache
\* without awaiting it
FetchOk(e) ==
    /\ execs[e].pc = "fetch"
    /\ LET id == execs[e].id
           data == FetchedObj(e, id)
       IN  /\ loadedIconSets' = [loadedIconSets EXCEPT ![id] = data]
           /\ execs' = [execs EXCEPT ![e] = [@ EXCEPT !.pc = "done", !.data = data]]
           /\ writes' = writes \cup {e}
    /\ UNCHANGED <<dataURLCache, _tasks, calls, legacy, files, dirExists,
                   config, clear, rs>>

\* lines 138-144: $fetch rejected
FetchFail(e) ==
    /\ execs[e].pc = "fetch"
    /\ execs' = [execs EXCEPT ![e] = FetchFailure(@)]
    /\ UNCHANGED <<loadedIconSets, dataURLCache, _tasks, calls, writes, legacy,
                   files, dirExists, config, clear, rs>>

\* the unawaited writeCache(id, data) of line 136 settles (lines 82-92)
WriteDone(e) ==
    /\ e \in writes
    /\ writes' = writes \ {e}
    /\ \E ok \in BOOLEAN :
         /\ files' = IF ok THEN files \cup {execs[e].id} ELSE files
         /\ dirExists' = (dirExists \/ ok)
    /\ UNCHANGED <<loadedIconSets, dataURLCache, _tasks, execs, calls, legacy,
                   config, clear, rs>>

\* ------------------------------------------------------------- callers
\* a call returned result; why: the cause of an absent result
RetEvent(op, key, size, id, exec, result, why) ==
    [op |-> op, key |-> key, size |-> size, id |-> id, exec |-> exec,
     result |-> result, why |-> why]

\* a call returns without awaiting anything that can be interleaved
SyncReturn(op, key, size, result) ==
    /\ ret' = RetEvent(op, key, size, "", 0, result, "")
    /\ called' = NoCall
    /\ UNCHANGED <<loadedIconSets, dataURLCache, _tasks, execs, calls, outcomes,
                   writes, legacy, files, dirExists, config, clear, rs>>

\* getIconInfo(key, allowAliases) up to await LoadIconSet (lines 231-242)
getIconInfo(key, allowAliases) ==
    LET actualKey == actualKeyOf(key, allowAliases)
        parsed == IF actualKey = Undefined THEN Undefined ELSE parseIcon(actualKey)
    IN  IF parsed = Undefined
        THEN SyncReturn("info", key, 0, [kind |-> "undefined"])
        ELSE LoadIconSetCall("info", key, actualKey, parsed.collection, 0)

\* getDataURL(key, fontSize) up to await getIconInfo(key) (lines 268-276)
getDataURL(key, fontSize) ==
    LET cached == cacheGet(cacheKeyOf(config.color, fontSize, key))
        actualKey == actualKeyOf(key, TRUE)
        parsed == IF actualKey = Undefined THEN Undefined ELSE parseIcon(actualKey)
    IN  IF cached.kind # "none"
        THEN SyncReturn("url", key, fontSize, cached)
        ELSE IF parsed = Undefined
        THEN SyncReturn("url", key, fontSize, [kind |-> "empty"])
        ELSE LoadIconSetCall("url", key, actualKey, parsed.collection, fontSize)

\* getDataURL(info, fontSize) with an IconInfo: no await (lines 268-283)
getDataURLOfInfo(info, fontSize) ==
    LET ck == cacheKeyOf(config.color, fontSize, info.key)
    IN  /\ cacheGet(ck).kind = "none"
        /\ dataURLCache' = cachePut(ck, render(info, fontSize, config.color),
                                    Request(config.color, fontSize, info.key))
        /\ UNCHANGED <<loadedIconSets, _tasks, execs, calls, writes, legacy,
                       files, dirExists, config, clear, rs>>

\* the IconInfo values a caller may hold
InfoArgs == {infoResult(FetchedObj(1, "a"), Key("a", "A"), Key("a", "A"))}

\* the caller resumes after await _tasks[id] (line 51) and, inside
\* getIconInfo (lines 243-263) and getDataURL (lines 279-283), runs to the end
Return(c) ==
    /\ BagIn(c, calls)
    /\ execs[c.exec].pc \in {"done", "rejected"}
    /\ LET data == execs[c.exec].data
           info == infoResult(data, parseIcon(c.actualKey), c.actualKey)
           result ==
             IF execs[c.exec].pc = "rejected" THEN [kind |-> "threw"]
             ELSE IF c.op = "load" THEN [kind |-> "object", obj |-> data]
             ELSE IF c.op = "info" THEN info
             ELSE IF info.kind = "null" THEN [kind |-> "empty"]
             ELSE render(info, c.size, config.color)
           why == IF c.op = "load" THEN ""
                  ELSE IF data = Undefined THEN "unavailable"
                  ELSE IF info.kind = "null" THEN "notfound" ELSE ""
       IN  /\ calls' = calls (-) SetToBag({c})
           /\ ret' = RetEvent(c.op, c.key, c.size, c.id, c.exec, result, why)
           /\ called' = NoCall
           /\ outcomes' = IF why = "" \/ c.op # "info" THEN outcomes
                          ELSE outcomes \cup {[why |-> why, result |-> result]}
           /\ dataURLCache' = IF result.kind = "url"
                              THEN cachePut(c.ck, result,
                                            Request(c.color, c.size, c.key))
                              ELSE dataURLCache
    /\ UNCHANGED <<loadedIconSets, _tasks, execs, writes, legacy, files,
                   dirExists, config, clear, rs>>

\* ------------------------------------------------------------- clearCache
NoIconSets == [i \in Ids |-> Undefined]
NoTasks == [i \in Ids |-> 0]

\* clearCache() up to await workspace.fs.delete (lines 66-69)
ClearStart ==
    /\ clear.pc = "idle"
    /\ clear.started < MaxClears
    /\ _tasks' = NoTasks
    /\ clear' = [clear EXCEPT !.pc = "deleting", !.started = @ + 1,
                              !.snap = loadedIconSets, !.outcome = "pending"]
    /\ UNCHANGED <<loadedIconSets, dataURLCache, execs, calls, writes, legacy,
                   files, dirExists, config, rs>>

\* workspace.fs.delete removed the directory; clearCache runs to its end
\* (lines 71-79)
ClearDone ==
    /\ clear.pc = "deleting"
    /\ dirExists
    /\ files' = {}
    /\ dirExists' = FALSE
    /\ legacy' = {}
    /\ loadedIconSets' = NoIconSets
    /\ dataURLCache' = {}
    /\ clear' = [clear EXCEPT !.pc = "idle", !.completed = @ + 1,
                              !.stale = clear.snap, !.outcome = "ok"]
    /\ UNCHANGED <<_tasks, execs, calls, writes, config, rs>>

\* workspace.fs.delete rejected because the directory does not exist: the
\* await of line 69 throws and clearCache() rejects
ClearThrow ==
    /\ clear.pc = "deleting"
    /\ ~dirExists
    /\ clear' = [clear EXCEPT !.pc = "idle", !.outcome = "threw"]
    /\ UNCHANGED <<loadedIconSets, dataURLCache, _tasks, execs, calls, writes,
                   legacy, files, dirExists, config, rs>>

\* the user changes the configured color (color.value)
SetColor(c) ==
    /\ c # config.color
    /\ config' = [config EXCEPT !.color = c]
    /\ UNCHANGED <<loadedIconSets, dataURLCache, _tasks, execs, calls, writes,
                   legacy, files, dirExists, clear, rs>>

\* ------------------------------------------------------------- specification
RsIdle == [pc |-> "idle"]

\* the stores a process may start with: a legacy entry and a persisted file
\* left by an earlier run, a custom collection configured or not
InitStores ==
    /\ loadedIconSets = NoIconSets
    /\ dataURLCache = {}
    /\ _tasks = NoTasks
    /\ execs = <<>>
    /\ calls = EmptyBag
    /\ called = NoCall
    /\ ret = NoRet
    /\ outcomes = {}
    /\ writes = {}
    /\ clear = [pc |-> "idle", started |-> 0, completed |-> 0,
                snap |-> NoIconSets, stale |-> NoIconSets, outcome |-> "none"]

Init ==
    /\ InitStores
    /\ legacy \in SUBSET LegacyIds
    /\ files \in SUBSET {"a"}
    /\ dirExists = (files # {})
    /\ config = [color |-> "red", custom |-> CustomIds,
                 customAliasesOnly |-> FALSE]
    /\ rs = RsIdle

\* a step in which no call returns
Quiet == ret' = NoRet /\ called' = NoCall /\ outcomes' = outcomes

\* the steps of the executions and of their callers
Steps ==
    \/ \E e \in 1..Len(execs) : CheckMemory(e) /\ Quiet
    \/ \E e \in 1..Len(execs) : ReadDone(e) /\ Quiet
    \/ \E e \in 1..Len(execs) : FetchOk(e) /\ Quiet
    \/ \E e \in 1..Len(execs) : FetchFail(e) /\ Quiet
    \/ \E e \in writes : WriteDone(e) /\ Quiet
    \/ \E c \in BagToSet(calls) : Return(c)

\* loads and cache clearing, in any interleaving
NextLoads ==
    \/ \E id \in Ids : LoadIconSet(id)
    \/ \E e \in 1..Len(execs) : MigrateStep(e) /\ Quiet
    \/ Steps
    \/ ClearStart /\ Quiet
    \/ ClearDone /\ Quiet
    \/ ClearThrow /\ Quiet

\* the same with deleteTask
Next ==
    \/ NextLoads
    \/ \E id \in Ids : deleteTask(id) /\ Quiet

Spec == Init /\ [][Next]_vars

\* loads and cache clearing with data URLs being cached
NextClear ==
    \/ NextLoads
    \/ \E i \in InfoArgs, s \in FontSizes : getDataURLOfInfo(i, s) /\ Quiet

SpecClear == Init /\ [][NextClear]_vars

\* the first loads of a process that finds legacy entries
InitMigrate ==
    /\ InitStores
    /\ legacy \in SUBSET Ids
    /\ files = {}
    /\ dirExists = FALSE
    /\ config = [color |-> "red", custom |-> {}, customAliasesOnly |-> FALSE]
    /\ rs = RsIdle

NextMigrate ==
    \/ \E id \in Ids : LoadIconSet(id)
    \/ \E e \in 1..Len(execs) : MigrateStep(e) /\ Quiet
    \/ Steps

SpecMigrate == InitMigrate /\ [][NextMigrate]_vars

\* direct loads and icon lookups, with nothing cached by an earlier run
InitInfo ==
    /\ InitStores
    /\ legacy = {}
    /\ files = {}
    /\ dirExists = FALSE
    /\ config \in [color : {"red"}, custom : {{}}, customAliasesOnly : BOOLEAN]
    /\ rs = RsIdle

NextInfo ==
    \/ \E id \in Ids : LoadIconSet(id)
    \/ \E k \in InfoKeys, allow \in BOOLEAN : getIconInfo(k, allow)
    \/ Steps

SpecInfo == InitInfo /\ [][NextInfo]_vars

\* the pixel sizes and the IconInfo values of the data URL requests: icon A
\* of collection "a" and icon A of a collection with prefix "2a"
UrlSizes == {3, 32}
UrlInfos == InfoArgs \cup {infoResult(CustomObj("2a"), Key("2a", "A"), Key("2a", "A"))}

\* data URLs under a changing color configuration
NextUrl ==
    \/ \E k \in UrlKeys, s \in UrlSizes : getDataURL(k, s)
    \/ \E i \in UrlInfos, s \in UrlSizes : getDataURLOfInfo(i, s) /\ Quiet
    \/ \E c \in Colors : SetColor(c) /\ Quiet
    \/ Steps

SpecUrl == InitInfo /\ [][NextUrl]_vars

\* ------------------------------------------------------------- the resolver
\* icon sets over Names: any subset of the names is an icon, any subset an
\* alias with any parent
IconChoices ==
    {PlainIcon,
     [PlainIcon EXCEPT !.width = Some(20), !.height = Some(10),
                       !.rotate = Some(1), !.hFlip = Some(TRUE)]}

AliasChoices ==
    {PlainAlias(p) : p \in Names} \cup
    {[PlainAlias(p) EXCEPT !.rotate = Some(2), !.hFlip = Some(TRUE)] : p \in Names}

PartialMaps(D, R) == UNION {[S -> R] : S \in SUBSET D}

IconSets ==
    {[prefix |-> "r", icons |-> ic, aliases |-> al, left |-> Absent,
      top |-> Absent, width |-> Absent, height |-> Absent] :
        ic \in PartialMaps(Names, IconChoices),
        al \in PartialMaps(Names, AliasChoices)}

InitResolve ==
    /\ InitStores
    /\ legacy = {}
    /\ files = {}
    /\ dirExists = FALSE
    /\ config = [color |-> "red", custom |-> {}, customAliasesOnly |-> FALSE]
    /\ \E data \in IconSets, name \in Names :
         rs = [pc |-> "call", data |-> data, name |-> name]

\* resolveIconData(data, name) is called and returns
Resolve ==
    /\ rs.pc = "call"
    /\ rs' = [pc |-> "returned", data |-> rs.data, name |-> rs.name,
              out |-> resolveRun(rs.data, rs.name)]
    /\ UNCHANGED <<loadedIconSets, dataURLCache, _tasks, execs, calls, called,
                   ret, outcomes, writes, legacy, files, dirExists, config,
                   clear>>

NextResolve == Resolve

SpecResolve == InitResolve /\ [][NextResolve]_vars

\* ------------------------------------------------------------- geometry
\* icon sets with icon A, alias B of A and alias C of B, varying one group of
\* fields at a time: the flips, the rotations, the sizes and offsets
Flips == {Absent, Some(FALSE), Some(TRUE)}
IconRotates == {Absent, Some(0), Some(1), Some(2), Some(3), Some(4), Some(7)}
AliasRotates == {Absent, Some(0), Some(1), Some(2), Some(3), Some(6)}
IconWidths == {Absent, Some(0), Some(20)}
Heights == {Absent, Some(0), Some(10)}
SetSizes == {Absent, Some(24)}
Offsets == {Absent, Some(0), Some(5)}

ChainSet(a, b, c, w, h) ==
    [prefix |-> "g",
     icons |-> [n \in {"A"} |-> a],
     aliases |-> [n \in {"B", "C"} |-> IF n = "B" THEN b ELSE c],
     left |-> Absent, top |-> Absent, width |-> w, height |-> h]

FlipSets ==
    {ChainSet([PlainIcon EXCEPT !.hFlip = ah, !.vFlip = av],
              [PlainAlias("A") EXCEPT !.hFlip = bh, !.vFlip = bv],
              [PlainAlias("B") EXCEPT !.hFlip = ch], Absent, Absent) :
        ah \in Flips, av \in Flips, bh \in Flips, bv \in Flips, ch \in Flips}

RotateSets ==
    {ChainSet([PlainIcon EXCEPT !.rotate = ar],
              [PlainAlias("A") EXCEPT !.rotate = br],
              [PlainAlias("B") EXCEPT !.rotate = cr], Absent, Absent) :
        ar \in IconRotates, br \in AliasRotates, cr \in AliasRotates}

SizeSets ==
    {ChainSet([PlainIcon EXCEPT !.width = aw, !.height = ah, !.left = al],
              [PlainAlias("A") EXCEPT !.width = bw, !.height = bh, !.top = bt],
              PlainAlias("B"), w, h) :
        aw \in IconWidths, ah \in Heights, al \in Offsets,
        bw \in SetSizes, bh \in Heights, bt \in Offsets,
        w \in SetSizes, h \in SetSizes}

InitGeom ==
    /\ InitStores
    /\ legacy = {}
    /\ files = {}
    /\ dirExists = FALSE
    /\ config = [color |-> "red", custom |-> {}, customAliasesOnly |-> FALSE]
    /\ \E data \in FlipSets \cup RotateSets \cup SizeSets, name \in Names :
         rs = [pc |-> "call", data |-> data, name |-> name]

\* getIconInfo goes on from the resolved icon to the IconInfo (lines 246-263)
BuildInfo ==
    /\ rs.pc = "returned"
    /\ rs' = [rs EXCEPT !.pc = "info",
                        !.out = iconInfoOf(rs.data, Key("g", rs.name),
                                           Key("g", rs.name))]
    /\ UNCHANGED <<loadedIconSets, dataURLCache, _tasks, execs, calls, called,
                   ret, outcomes, writes, legacy, files, dirExists, config,
                   clear>>

NextGeom == Resolve \/ BuildInfo

SpecGeom == InitGeom /\ [][NextGeom]_vars

\* ------------------------------------------------------------- properties
ExecIds == 1..Len(execs)
Settled(e) == execs[e].pc \in {"done", "rejected"}

\* every call that returns from LoadIconSet returns the data of the
\* execution it awaited
ReturnsExecData ==
    ret.op = "load" => ret.result = [kind |-> "object", obj |-> execs[ret.exec].data]

\* C1: a LoadIconSet(id) call made while an earlier call's execution for id
\* is still in flight (its entry is still tracked) starts no execution of its
\* own: it awaits that same execution, and every caller returns the data of
\* the execution it awaited; no execution starts more than one network
\* fetch, and one that missed memory, custom collections and disk started
\* exactly one.
C1_ConcurrentCallsShareOneFetch ==
    /\ (called.op # "none" /\ called.found = "pending") =>
          (called.exec = called.prev /\ ~called.started)
    /\ ReturnsExecData
    /\ \A e \in ExecIds :
         /\ execs[e].fetches <= 1
         /\ (Settled(e) /\ ~execs[e].sawMem /\ ~execs[e].sawCustom
               /\ ~execs[e].sawDisk) => execs[e].fetches = 1

\* a second caller has just joined an execution whose fetch is in flight, and
\* two callers now await it
C1_Witness ==
    /\ called.op = "load"
    /\ called.found = "pending"
    /\ execs[called.exec].pc = "fetch"
    /\ \E c \in BagToSet(calls) : c.exec = called.exec /\ CopiesIn(c, calls) = 2

InFlight(id) == {e \in ExecIds : execs[e].id = id /\ execs[e].pc \in {"read", "fetch"}}

\* C2: in every reachable state at most one load execution (disk read or
\* network fetch) is in flight for any one collection id.
C2_AtMostOneInFlight == \A id \in Ids : Cardinality(InFlight(id)) <= 1

\* C3: a LoadIconSet call made after clearCache() completed is never answered
\* with the icon-set object that was in memory when that clearCache() was
\* called: the execution it awaits has not resolved with that object.
C3_NoStaleAfterClear ==
    (/\ called.op = "load"
     /\ called.after > 0
     /\ clear.stale[called.id] # Undefined
     /\ Settled(called.exec))
    => execs[called.exec].data # clear.stale[called.id]

\* C4: when the cache directory does not exist, clearCache() still completes
\* without throwing, leaving both in-memory caches empty.
C4_ClearWithoutDirectory ==
    [][(clear.pc = "deleting" /\ ~dirExists /\ clear'.pc = "idle") =>
         (/\ clear'.outcome = "ok"
          /\ loadedIconSets' = NoIconSets
          /\ dataURLCache' = {})]_vars

\* C5: at the moment clearCache() returns successfully no deduplication entry
\* is tracked, no persisted file and no legacy entry is left, and both
\* in-memory caches are empty.
C5_ClearLeavesAllStoresEmpty ==
    [][(clear.pc = "deleting" /\ clear'.pc = "idle" /\ clear'.outcome = "ok") =>
         (/\ _tasks' = NoTasks
          /\ files' = {}
          /\ legacy' = {}
          /\ loadedIconSets' = NoIconSets
          /\ dataURLCache' = {})]_vars

\* C6: the deduplication entry is sticky.  A call made when the tracked
\* execution has settled starts nothing and awaits that execution, whose
\* outcome never changes and is what the caller returns; an entry changes
\* only by deleteTask(id) or clearCache(); and a call made when no entry is
\* tracked starts a new execution.
C6_StickyUntilRemoved ==
    /\ [](/\ (called.op # "none" /\ called.found = "settled") =>
                (called.exec = called.prev /\ ~called.started)
          /\ (called.op # "none" /\ called.found = "none") =>
                (/\ called.started
                 /\ called.exec = Len(execs)
                 /\ _tasks[called.id] = called.exec)
          /\ ReturnsExecData)
    /\ [][/\ \A e \in ExecIds : Settled(e) => execs'[e] = execs[e]
          /\ \A id \in Ids :
               (_tasks[id] # 0 /\ _tasks'[id] # _tasks[id]) =>
                  (_tasks'[id] = 0 /\ (clear'.started = clear.started + 1
                                         \/ (deleteTask(id) /\ Quiet)))]_vars

\* a call has just been made after the tracked execution settled with a
\* failed fetch: it awaits that execution and started nothing
C6_Witness ==
    /\ called.op = "load"
    /\ called.found = "settled"
    /\ execs[called.exec].failed
    /\ execs[called.exec].data = Undefined
    /\ ~called.started

\* C7: when the network fetch fails, the execution resolves with undefined
\* (it does not reject), getIconInfo returns an absent value (it does not
\* throw), and the failing step adds nothing to the in-memory cache, to the
\* persisted files or to the writes in flight.
C7_FetchFailureIsAbsent ==
    /\ [](/\ \A e \in ExecIds :
               execs[e].failed => (execs[e].pc = "done" /\ execs[e].data = Undefined)
          /\ (ret.op # "none" /\ ret.exec # 0 /\ execs[ret.exec].failed) =>
               /\ ret.op = "load" => ret.result = [kind |-> "object", obj |-> Undefined]
               /\ ret.op = "info" => ret.result.kind = "null"
               /\ ret.op = "url" => ret.result.kind = "empty")
    /\ [][\A e \in ExecIds :
            (execs[e].pc = "fetch" /\ execs'[e].failed) =>
               (/\ loadedIconSets' = loadedIconSets
                /\ files' = files
                /\ writes' = writes)]_vars

\* getIconInfo returned null after its collection's fetch failed
C7_Witness ==
    /\ ret.op = "info"
    /\ ret.exec # 0
    /\ execs[ret.exec].failed
    /\ ret.result.kind = "null"
    /\ loadedIconSets[ret.id] = Undefined

\* C8: the value getIconInfo returns when the collection could not be loaded
\* differs from the value it returns when the collection was loaded and the
\* name does not resolve.
C8_UnavailableDiffersFromNotFound ==
    \A p, q \in outcomes :
        (p.why = "unavailable" /\ q.why = "notfound") => p.result # q.result

\* C9: an execution starts its network fetch only after it found the id
\* neither in memory nor among the custom collections and loadCache gave
\* nothing; it starts its disk read only after the first two missed; and the
\* step that ends with a disk hit or a successful fetch leaves the returned
\* icon set in the in-memory cache under the id.
C9_ResolutionOrder ==
    /\ [](\A e \in ExecIds :
            /\ (execs[e].pc = "fetch" \/ execs[e].fetches > 0) =>
                  (/\ ~execs[e].sawMem /\ ~execs[e].sawCustom /\ ~execs[e].sawDisk
                   /\ execs[e].reads = 1)
            /\ (execs[e].pc = "read" \/ execs[e].reads > 0) =>
                  (~execs[e].sawMem /\ ~execs[e].sawCustom)
            /\ (execs[e].pc = "done" /\ execs[e].reads = 0) =>
                  (execs[e].sawMem \/ execs[e].sawCustom))
    /\ [][\A e \in ExecIds :
            (/\ execs[e].pc \in {"read", "fetch"}
             /\ execs'[e].pc = "done"
             /\ execs'[e].data # Undefined) =>
               loadedIconSets'[execs[e].id] = execs'[e].data]_vars

\* one execution missed memory, custom collections and disk, fetched, and
\* left its icon set in memory; another found its custom collection and
\* started neither a read nor a fetch
C9_Witness ==
    \E e1, e2 \in ExecIds :
        /\ execs[e1].pc = "done" /\ execs[e1].fetches = 1 /\ ~execs[e1].failed
        /\ execs[e1].reads = 1 /\ ~execs[e1].sawDisk
        /\ loadedIconSets[execs[e1].id] = execs[e1].data
        /\ execs[e2].pc = "done" /\ execs[e2].sawCustom
        /\ execs[e2].reads = 0 /\ execs[e2].fetches = 0

\* the alias chain from key never reaches an icon or an unknown name
RECURSIVE ChainLoops(_, _, _)
ChainLoops(data, key, n) ==
    IF key \in DOMAIN data.icons \/ key \notin DOMAIN data.aliases THEN FALSE
    ELSE IF n = 0 THEN TRUE
    ELSE ChainLoops(data, data.aliases[key].parent, n - 1)

NoRepeat(seq) == \A i, j \in 1..Len(seq) : seq[i] = seq[j] => i = j

\* C10: alias resolution returns without exhausting the call stack, adds no
\* name to the visited set twice, and returns null whenever the alias chain
\* from the start name runs into a cycle.
C10_CycleSafe ==
    rs.pc = "returned" =>
        /\ ~rs.out.overflow
        /\ NoRepeat(rs.out.trace)
        /\ Len(rs.out.trace) <= Cardinality(Names)
        /\ ChainLoops(rs.data, rs.name, Cardinality(Names)) => rs.out.icon = Null

\* A is an alias of B and B an alias of A, and resolving A returned null
C10_Witness ==
    /\ rs.pc = "returned"
    /\ rs.name = "A"
    /\ DOMAIN rs.data.icons = {}
    /\ {"A", "B"} \subseteq DOMAIN rs.data.aliases
    /\ rs.data.aliases["A"].parent = "B"
    /\ rs.data.aliases["B"].parent = "A"
    /\ rs.out.trace = <<"A", "B">>
    /\ rs.out.icon = Null

\* ------------------------------------------------------------- C11
\* a flip that is absent counts as false
Truthy(f) == f # Absent /\ Val(f)

\* the resolved parent of alias name in the call at hand
ParentOf(name) == resolveIconData(rs.data, rs.data.aliases[name].parent)

\* the call at hand resolved an alias over a parent that resolves
AliasResolved ==
    /\ rs.pc = "returned"
    /\ rs.name \in DOMAIN rs.data.aliases
    /\ rs.out.icon # Null

\* C11: for an alias over a resolved parent, the resolved hFlip (and vFlip) is
\* true exactly when one of the parent's flip and the alias's flip is true
\* and the other is not, an absent flip counting as false.
C11_FlipIsXor ==
    AliasResolved =>
        LET alias == rs.data.aliases[rs.name]
            parent == ParentOf(rs.name)
        IN  /\ Truthy(rs.out.icon.hFlip) = (Truthy(parent.hFlip) # Truthy(alias.hFlip))
            /\ Truthy(rs.out.icon.vFlip) = (Truthy(parent.vFlip) # Truthy(alias.vFlip))

\* ------------------------------------------------------------- C12
\* a rotate that is absent counts as 0
RotVal(r) == IF r = Absent THEN 0 ELSE Val(r)

\* the sum of the rotate values along the alias chain from key to its icon
RECURSIVE ChainRotate(_, _)
ChainRotate(data, key) ==
    IF key \in DOMAIN data.icons THEN RotVal(data.icons[key].rotate)
    ELSE RotVal(data.aliases[key].rotate)
           + ChainRotate(data, data.aliases[key].parent)

\* C12: along an acyclic chain of aliases ending in an icon, with non-negative
\* rotate values, the resolved rotate is the sum of the icon's and every
\* alias's rotate modulo 4 (absent counting as 0), and an alias whose sum is 0
\* modulo 4 resolves with no rotate.
C12_RotateIsSumMod4 ==
    (rs.pc = "returned" /\ rs.out.icon # Null) =>
        LET sum == ChainRotate(rs.data, rs.name) % 4
        IN  /\ RotVal(rs.out.icon.rotate) = sum
            /\ (rs.name \in DOMAIN rs.data.aliases /\ sum = 0) =>
                  rs.out.icon.rotate = Absent

\* alias C turned once over alias B turned twice over icon A turned three
\* times resolved to rotate 2; the same set resolves B to rotate 1
C12_Witness ==
    /\ rs.pc = "returned"
    /\ rs.name = "C"
    /\ rs.data.icons["A"].rotate = Some(3)
    /\ rs.data.aliases["B"].rotate = Some(2)
    /\ rs.data.aliases["C"].rotate = Some(1)
    /\ rs.out.icon.rotate = Some(2)
    /\ resolveIconData(rs.data, "B").rotate = Some(1)

\* ------------------------------------------------------------- C13
\* own value if present, else the collection's, else the default
Fallback(own, ofSet, default) ==
    IF own # Absent THEN own ELSE IF ofSet # Absent THEN ofSet ELSE Some(default)

\* the fraction r equals n / d
RatioIs(r, n, d) == r.den # 0 /\ d # 0 /\ r.num * d = n * r.den

\* C13: a concrete icon resolves to its own width and height if present, else
\* the collection-level value, else 16 (and then to ratio 1); an alias
\* resolves to its own width, height, left and top where present and to the
\* resolved parent's where absent.
C13_GeometryFallbackAndOverride ==
    /\ (rs.pc = "returned" /\ rs.name \in DOMAIN rs.data.icons) =>
          LET icon == rs.data.icons[rs.name]
          IN  /\ rs.out.icon.width = Fallback(icon.width, rs.data.width, 16)
              /\ rs.out.icon.height = Fallback(icon.height, rs.data.height, 16)
    /\ (rs.pc = "info" /\ rs.name \in DOMAIN rs.data.icons) =>
          LET icon == rs.data.icons[rs.name]
          IN  /\ Some(rs.out.width) = Fallback(icon.width, rs.data.width, 16)
              /\ Some(rs.out.height) = Fallback(icon.height, rs.data.height, 16)
              /\ (icon.width = Absent /\ icon.height = Absent
                    /\ rs.data.width = Absent /\ rs.data.height = Absent) =>
                   RatioIs(rs.out.ratio, 1, 1)
    /\ AliasResolved =>
          LET alias == rs.data.aliases[rs.name]
              parent == ParentOf(rs.name)
          IN  /\ rs.out.icon.width = IF alias.width # Absent THEN alias.width
                                     ELSE parent.width
              /\ rs.out.icon.height = IF alias.height # Absent THEN alias.height
                                      ELSE parent.height
              /\ rs.out.icon.left = IF alias.left # Absent THEN alias.left
                                    ELSE parent.left
              /\ rs.out.icon.top = IF alias.top # Absent THEN alias.top
                                   ELSE parent.top

\* an icon with no width and height, in a collection with none, has become
\* an IconInfo of width 16, height 16 and ratio 1; alias B of it, giving a
\* height and a top of its own, resolves to width 16 and its own height and top
C13_Witness ==
    /\ rs.pc = "info"
    /\ rs.name = "A"
    /\ rs.data.icons["A"].width = Absent /\ rs.data.icons["A"].height = Absent
    /\ rs.data.width = Absent /\ rs.data.height = Absent
    /\ rs.out.width = 16 /\ rs.out.height = 16
    /\ rs.out.ratio = [num |-> 16, den |-> 16]
    /\ rs.data.aliases["B"].width = Absent
    /\ rs.data.aliases["B"].height = Some(10)
    /\ rs.data.aliases["B"].top = Some(5)
    /\ LET b == resolveIconData(rs.data, "B")
       IN  b.width = Some(16) /\ b.height = Some(10) /\ b.top = Some(5)
                              /\ b.left = Some(0)

\* ------------------------------------------------------------- C18
\* C18: the ratio of an IconInfo is width / height when both are non-zero,
\* and is 1 when the height is 0.
C18_RatioIsOneWhenInvalid ==
    rs.pc = "info" =>
        /\ (rs.out.width # 0 /\ rs.out.height # 0) =>
              RatioIs(rs.out.ratio, rs.out.width, rs.out.height)
        /\ rs.out.height = 0 => RatioIs(rs.out.ratio, 1, 1)

\* ------------------------------------------------------------- C14
\* getDataURL has just returned a memoized string
MemoHit == ret.op = "url" /\ ret.exec = 0 /\ ret.result.kind = "url"

\* C14: a string getDataURL returns from the data-URL cache is the one stored
\* there by a request with the same display color, the same pixel size and
\* the same icon key.
C14_CacheKeyedByTriple ==
    MemoHit =>
        \E p \in dataURLCache :
            /\ p.ck = cacheKeyOf(config.color, ret.size, ret.key)
            /\ p.url = ret.result
            /\ p.by = Request(config.color, ret.size, ret.key)

\* ------------------------------------------------------------- C19
\* C19: every entry of the data-URL cache holds a data URL rendered with the
\* display color its cache key was built from.
C19_EntryColorMatchesKey ==
    \A p \in dataURLCache : p.url.color = p.by.color

\* ------------------------------------------------------------- C15
\* execution e finishes migrateCache in this step, after the write of its
\* last legacy key
MigrationEnds(e) == execs[e].pc = "mwrite" /\ execs'[e].pc = "check"

\* a call starts an execution, and with it migrateCache, in this step
MigrationStarts == Len(execs') = Len(execs) + 1

\* C15: when migrateCache completes, no legacy entry remains and the
\* collection of the entry it handled last is in the in-memory cache and in
\* the persisted layout with the stored value; a migration started with no
\* legacy entry left changes no store and does not fail.
C15_MigrationPostcondition ==
    [][/\ \A e \in ExecIds :
            MigrationEnds(e) =>
               LET k == Head(execs[e].mkeys)
               IN  /\ legacy' = {}
                   /\ loadedIconSets'[k] = LegacyObj(k)
                   /\ k \in files'
       /\ (MigrationStarts /\ legacy = {}) =>
             /\ execs'[Len(execs')].pc = "check"
             /\ loadedIconSets' = loadedIconSets
             /\ files' = files
             /\ legacy' = legacy]_vars

\* ------------------------------------------------------------- C16
\* the unawaited writeCache of execution e settles in this step without
\* having written the file
FetchWriteFails(e) == e \in writes /\ e \notin writes' /\ execs[e].id \notin files'

\* the writeCache awaited by migrateCache in execution e settles in this step
\* without having written the file of a legacy icon set
MigrateWriteFails(e) ==
    /\ execs[e].pc = "mwrite"
    /\ execs'[e] # execs[e]
    /\ execs[e].mval # Undefined
    /\ Head(execs[e].mkeys) \notin files'

\* C16: a failed write of the persisted file does not fail a load.  No
\* execution rejects and no LoadIconSet call throws; a call returns undefined
\* only after a failed fetch; the step in which the write after a fetch
\* fails leaves the executions and the in-memory cache as they are, with the
\* fetched icon set resolved and in memory; the step in which a write of
\* migrateCache fails leaves the adopted icon set in memory and the execution
\* going on.
C16_WriteFailureDoesNotFailLoad ==
    /\ [](/\ \A e \in ExecIds : execs[e].pc # "rejected"
          /\ ret.op = "load" =>
                /\ ret.result.kind = "object"
                /\ ret.result.obj = Undefined => execs[ret.exec].failed)
    /\ [][\A e \in ExecIds :
            /\ FetchWriteFails(e) =>
                  /\ execs' = execs
                  /\ loadedIconSets' = loadedIconSets
                  /\ execs[e].pc = "done"
                  /\ execs[e].data = FetchedObj(e, execs[e].id)
                  /\ loadedIconSets[execs[e].id] = execs[e].data
            /\ MigrateWriteFails(e) =>
                  /\ execs'[e].pc \in {"mwrite", "check"}
                  /\ loadedIconSets'[Head(execs[e].mkeys)] = execs[e].mval]_vars

\* LoadIconSet has returned the fetched icon set of a collection whose write
\* failed, and another collection's legacy icon set is in memory although its
\* write by migrateCache failed
C16_Witness ==
    /\ ret.op = "load"
    /\ ret.result = [kind |-> "object", obj |-> FetchedObj(ret.exec, ret.id)]
    /\ ret.exec \notin writes
    /\ ret.id \notin files
    /\ loadedIconSets[ret.id] = ret.result.obj
    /\ \E k \in Ids : /\ loadedIconSets[k] = LegacyObj(k)
                      /\ k \notin legacy
                      /\ k \notin files

\* ------------------------------------------------------------- C17
\* the executions that have adopted the legacy entry of id k into memory and
\* are writing it to the persisted layout
Adopting(k) ==
    {e \in ExecIds : /\ execs[e].pc = "mwrite"
                     /\ Head(execs[e].mkeys) = k
                     /\ execs[e].mval # Undefined}

\* C17: each legacy entry is adopted into memory and written to the persisted
\* layout at most once: no two executions adopt and write the same entry.
C17_LegacyEntryAdoptedOnce == \A k \in Ids : Cardinality(Adopting(k)) <= 1

\* ------------------------------------------------------------- C20
\* clearCache() has returned and no load was requested since it was called:
\* every request registers an entry, and those of before were discarded
ClearedAndIdle == clear.pc = "idle" /\ clear.outcome = "ok" /\ _tasks = NoTasks

\* C20: once clearCache() has returned, and until a load is requested, the
\* in-memory icon-set cache and the persisted cache directory stay empty.
C20_StaysEmptyAfterClear ==
    ClearedAndIdle => (loadedIconSets = NoIconSets /\ files = {})

====
